---------------------------- MODULE Spec2Model ----------------------------
(***************************************************************************)
(* Model of the lensing package: shear.Profile (src/shear/profile.py) and  *)
(* kappa.KappaMap (src/kappa/map.py).                                      *)
(*                                                                         *)
(* Floating point values are modelled by exact extended rationals: a       *)
(* record [n, d] with d > 0 is the reduced fraction n/d, [1,0] is +inf,    *)
(* [-1,0] is -inf and [0,0] is NaN, combined by the IEEE rules numpy       *)
(* applies (division by zero yields inf or NaN with a warning, it does not *)
(* raise).  Rounding, overflow and the sign of zero are not modelled.      *)
(***************************************************************************)
EXTENDS Integers, Sequences, FiniteSets, TLC

VARIABLES
    \* ---- shear.Profile ----
    args,          \* the arguments of Profile.__init__ the caller holds
    profile,       \* the attributes of the Profile object (self)
    outcome,       \* "none" before the call, "ok", or the exception raised
    raisedAt,      \* the bin of the loop at line 60 where it raised, or -1
    built_in,      \* the generator's state when the construction started
    rng,           \* state of numpy's global random generator
    prev,          \* errors of the previous construction from the same args
    file,          \* the lines of the output file of write_to
    wstatus,       \* outcome of each write_to call, in call order
    \* ---- kappa.KappaMap ----
    shear_map,     \* the grid shear.ShearMap returns
    truth,         \* the convergence map a shear grid was lensed from
    kargs,         \* the arguments of KappaMap.__init__
    kmap,          \* the attributes of the KappaMap object (self)
    koutcome,      \* "none", "ok", or the exception raised
    \* ---- KappaMap._conjugate_inversion_kernel on its own ----
    kern_in,       \* [nbins, dx, dy]
    kern_out       \* the kernel returned, or <<>> before the call

vars == <<args, profile, outcome, raisedAt, built_in, rng, prev, file, wstatus,
          shear_map, truth, kargs, kmap, koutcome, kern_in, kern_out>>

profileVars == <<args, profile, outcome, raisedAt, built_in, rng, prev, file, wstatus>>
kappaVars == <<shear_map, truth, kargs, kmap, koutcome>>
kernelVars == <<kern_in, kern_out>>

-----------------------------------------------------------------------------
(* Extended rational arithmetic (numpy float64 semantics, exact)           *)

Abs(x) == IF x < 0 THEN -x ELSE x

Sgn(x) == IF x < 0 THEN -1 ELSE IF x > 0 THEN 1 ELSE 0

RECURSIVE Gcd(_, _)
Gcd(a, b) == IF b = 0 THEN a ELSE Gcd(b, a % b)

\* n/d reduced; a zero denominator keeps only the sign of n
Frac(n, d) ==
    IF d = 0 THEN [n |-> Sgn(n), d |-> 0]
    ELSE LET g == Gcd(Abs(n), Abs(d))
         IN  [n |-> (Sgn(d) * n) \div g, d |-> Abs(d) \div g]

Q(i) == [n |-> i, d |-> 1]
Zero == Q(0)
One == Q(1)
NaN == [n |-> 0, d |-> 0]
Inf == [n |-> 1, d |-> 0]

IsNaN(x) == x.d = 0 /\ x.n = 0
IsInf(x) == x.d = 0 /\ x.n # 0
IsFinite(x) == x.d > 0
IsZero(x) == x.d > 0 /\ x.n = 0

Neg(x) == [n |-> -x.n, d |-> x.d]

Add(x, y) ==
    IF IsInf(x) /\ IsInf(y)
    THEN (IF x.n = y.n THEN x ELSE NaN)
    ELSE Frac(x.n * y.d + y.n * x.d, x.d * y.d)

Sub(x, y) == Add(x, Neg(y))

Mul(x, y) == Frac(x.n * y.n, x.d * y.d)

\* 1/y: 1/0 = inf, 1/inf = 0, 1/NaN = NaN
Recip(y) ==
    IF y.n = 0 THEN (IF y.d = 0 THEN NaN ELSE Inf)
    ELSE Frac(Sgn(y.n) * y.d, Abs(y.n))

Div(x, y) == Mul(x, Recip(y))

\* x < y on finite values; any comparison with NaN is false
Less(x, y) ==
    /\ ~IsNaN(x) /\ ~IsNaN(y)
    /\ IF IsFinite(x) /\ IsFinite(y) THEN x.n * y.d < y.n * x.d
       ELSE IF IsInf(x) /\ IsInf(y) THEN x.n < y.n
       ELSE IF IsInf(x) THEN x.n < 0
       ELSE y.n > 0

Leq(x, y) == ~IsNaN(x) /\ ~IsNaN(y) /\ (x = y \/ Less(x, y))

RECURSIVE SumSeq(_)
SumSeq(s) == IF s = <<>> THEN Zero ELSE Add(Head(s), SumSeq(Tail(s)))

\* the array <<F(1), ..., F(n)>>
Array(n, f) ==
    LET RECURSIVE From(_)
        From(k) == IF k > n THEN <<>> ELSE <<f[k]>> \o From(k + 1)
    IN  From(1)

-----------------------------------------------------------------------------
(* shear.Profile: inputs                                                    *)

MaxGal == 2        \* galaxies in a catalogue
MaxBoot == 2       \* boot_n
MaxBins == 2       \* bins, when given as an int

\* Projected distances to the lens (dist_hMpc, line 33) and the rotated
\* ellipticities (et, ex, line 34) come from gentools, which is outside
\* these sources: a galaxy carries them as given.
DistVals == {0, 1, 2, 4}

\* The remaining columns of a catalogue row.  Two ordinary sources with
\* different source distances, ellipticities and calibration bias:
SourceA == [et |-> 1, ex |-> 0, m |-> 0, weight |-> 1, DL |-> 1, DS |-> 2, DLS |-> 1]
SourceB == [et |-> -1, ex |-> 1, m |-> 1, weight |-> 1, DL |-> 1, DS |-> 1, DLS |-> 1]

\* a source of weight zero, and one with DS = 0
DegenerateKinds ==
    { [et |-> 1, ex |-> 1, m |-> 0, weight |-> 0, DL |-> 1, DS |-> 1, DLS |-> 1],
      [et |-> 1, ex |-> 0, m |-> 0, weight |-> 1, DL |-> 1, DS |-> 0, DLS |-> 1] }

Placed(k, d) ==
    [dist |-> d, et |-> k.et, ex |-> k.ex, m |-> k.m, weight |-> k.weight,
     DL |-> k.DL, DS |-> k.DS, DLS |-> k.DLS]

\* the first source at every distance, the second inside the bins, the
\* degenerate ones at distance 1
Galaxies ==
    { Placed(SourceA, d) : d \in DistVals }
    \cup { Placed(SourceB, d) : d \in {1, 2} }
    \cup { Placed(k, 1) : k \in DegenerateKinds }

Catalogs == UNION { [1..k -> Galaxies] : k \in 0..MaxGal }

\* bins given as an array of edges: increasing, with a repeated edge,
\* decreasing, and neither
EdgeArrays == { <<1, 2, 4>>, <<1, 1, 2>>, <<4, 2, 1>>, <<1, 4, 2>> }

\* bins given as an int, with rin_hMpc, rout_hMpc and space.  geomspace is
\* modelled where its edges are rational: rout = rin * q^bins for an integer q.
IsPower(rin, rout, n, q) ==
    LET RECURSIVE Pow(_, _)
        Pow(b, e) == IF e = 0 THEN 1 ELSE b * Pow(b, e - 1)
    IN  rin * Pow(q, n) = rout

BinSpecs ==
    { [kind |-> "array", edges |-> e] : e \in EdgeArrays }
    \cup { [kind |-> "int", bins |-> n, rin |-> 1, rout |-> 4, space |-> "lin"] :
             n \in 1..MaxBins }
    \cup { [kind |-> "int", bins |-> n, rin |-> 1, rout |-> 4, space |-> "log"] :
             n \in { m \in 1..MaxBins : \E q \in 1..4 : IsPower(1, 4, m, q) } }

BootOptions ==
    { [boot_flag |-> FALSE, boot_n |-> 1] }
    \cup { [boot_flag |-> TRUE, boot_n |-> n] : n \in 1..MaxBoot }

\* A pandas.DataFrame catalogue is converted at line 23 and fails at line 26
\* before any other argument is read.
ProfileArgs ==
    { [cat |-> c, frame |-> FALSE, bins |-> b,
       boot_flag |-> o.boot_flag, boot_n |-> o.boot_n] :
         c \in Catalogs, b \in BinSpecs, o \in BootOptions }
    \cup { [cat |-> c, frame |-> TRUE, bins |-> [kind |-> "array", edges |-> <<1, 2, 4>>],
            boot_flag |-> TRUE, boot_n |-> 1] : c \in Catalogs }

-----------------------------------------------------------------------------
(* shear.Profile: helpers                                                   *)

\* set_sigma_critic, lines 88-91, in units of
\* cvel^2 pc / (4 pi G 1e6 Msun), a positive constant
beta(g) == Div(Q(g.DLS), Q(g.DS))

sigma_critic(g) == Mul(Div(One, Q(g.DL)), Div(One, beta(g)))

\* np.linspace(rin, rout, n+1)
linspace(rin, rout, n) ==
    LET edge(k) == Add(Q(rin), Mul(Q(k - 1), Frac(rout - rin, n)))
    IN  Array(n + 1, [ix \in 1..(n + 1) |-> edge(ix)])

\* np.geomspace(rin, rout, n+1) for rout = rin * q^n
geomspace(rin, rout, n) ==
    LET q == CHOOSE x \in 1..rout : IsPower(rin, rout, n, x)
        RECURSIVE Pow(_, _)
        Pow(b, e) == IF e = 0 THEN 1 ELSE b * Pow(b, e - 1)
        edge(k) == Q(rin * Pow(q, k - 1))
    IN  Array(n + 1, [ix \in 1..(n + 1) |-> edge(ix)])

\* lines 37-45: self.bins
MakeBins(b) ==
    IF b.kind = "int"
    THEN (IF b.space = "log" THEN geomspace(b.rin, b.rout, b.bins)
                             ELSE linspace(b.rin, b.rout, b.bins))
    ELSE LET edge(k) == Q(b.edges[k]) IN Array(Len(b.edges), [ix \in 1..(Len(b.edges)) |-> edge(ix)])

\* numpy's monotonicity test of the bin edges: 1 non-decreasing (also when
\* all edges are equal), -1 non-increasing, 0 neither
Monotonicity(e) ==
    IF \A k \in 1..(Len(e) - 1) : Leq(e[k], e[k + 1]) THEN 1
    ELSE IF \A k \in 1..(Len(e) - 1) : Leq(e[k + 1], e[k]) THEN -1
    ELSE 0

\* np.searchsorted(a, x, side='right') on a non-decreasing a
searchsorted(a, x) == Cardinality({ k \in 1..Len(a) : Leq(a[k], x) })

Reverse(a) == LET r(k) == a[Len(a) + 1 - k] IN Array(Len(a), [ix \in 1..(Len(a)) |-> r(ix)])

\* np.digitize with right=True: intervals closed on the right
digitize_right(x, e) ==
    IF Monotonicity(e) = -1
    THEN Cardinality({ k \in 1..Len(e) : Leq(x, e[k]) })
    ELSE Cardinality({ k \in 1..Len(e) : Less(e[k], x) })

\* np.digitize(x, bins) with right=False, for monotonic bins
digitize(x, e) ==
    IF Monotonicity(e) = -1
    THEN Len(e) - searchsorted(Reverse(e), x)
    ELSE searchsorted(e, x)

\* line 48: digit, per galaxy
Digit(c, e) == LET d(k) == digitize(Q(c[k].dist), e) - 1 IN Array(Len(c), [ix \in 1..(Len(c)) |-> d(ix)])

\* line 61: the catalogue indices of mask = (digit == i), in order
RECURSIVE MaskIdx(_, _, _)
MaskIdx(dg, i, k) ==
    IF k > Len(dg) THEN <<>>
    ELSE (IF dg[k] = i THEN <<k>> ELSE <<>>) \o MaskIdx(dg, i, k + 1)

\* np.average(a, weights=w): raises ZeroDivisionError when the weights sum
\* to exactly zero
Average(a, w) ==
    LET scl == SumSeq(w)
        aw(k) == Mul(a[k], w[k])
    IN  IF IsZero(scl) THEN [err |-> TRUE, val |-> NaN]
        ELSE [err |-> FALSE, val |-> Div(SumSeq(Array(Len(a), [ix \in 1..(Len(a)) |-> aw(ix)])), scl)]

\* Errors are square roots; a value sqrt(q) is held as its radicand q, and
\* sqrt(q)/m with m >= 0 as q/m^2 (np.sqrt keeps NaN and inf).
Sqrt(q) == [sqrt |-> q]

DivRoot(r, m) == [sqrt |-> Div(r.sqrt, Mul(m, m))]

\* np.std(x): sqrt(mean(|x - mean(x)|^2)); NaN for an empty x
Std(x) ==
    LET n == Q(Len(x))
        mu == Div(SumSeq(x), n)
        dev(k) == Mul(Sub(x[k], mu), Sub(x[k], mu))
    IN  Sqrt(Div(SumSeq(Array(Len(x), [ix \in 1..(Len(x)) |-> dev(ix)])), n))

-----------------------------------------------------------------------------
(* numpy's global random generator, abstracted to a multiplicative          *)
(* congruential generator; only what NumpyRNGContext and randint rely on    *)
(* is kept: seeding fixes the state, every draw advances it.                *)

RngMod == 5

RngStates == 1..(RngMod - 1)

\* np.random.seed(seed)
RngSeed(seed) == (seed % (RngMod - 1)) + 1

RngNext(s) == (2 * s) % RngMod

RECURSIVE RngAfter(_, _)
RngAfter(s, t) == IF t = 0 THEN s ELSE RngAfter(RngNext(s), t - 1)

\* np.random.randint(low=0, high=n) drawn in state s
RandInt(s, n) == s % n

\* astropy.stats.bootstrap(index, nboot): nboot rows of n indices each,
\* drawn one after the other starting in state s (indices are 0-based)
bootstrap(n, nboot, s) ==
    LET resample(b) ==
            LET draw(j) == RandInt(RngAfter(s, (b - 1) * n + (j - 1)), n)
            IN  Array(n, [ix \in 1..n |-> draw(ix)])
    IN  Array(nboot, [ix \in 1..nboot |-> resample(ix)])

\* _boot_error without the NumpyRNGContext: the resampling draws from the
\* global generator as it stands and leaves it advanced
BootErrorUnseeded(shear, cero, weight, nboot, g) ==
    LET n == Len(shear)
        index_boot == bootstrap(n, nboot, g)
        row(a, b) == LET pick(j) == a[index_boot[b][j] + 1] IN Array(n, [ix \in 1..n |-> pick(ix)])
        smean(b) == Average(row(shear, b), row(weight, b))
        cmean(b) == Average(row(cero, b), row(weight, b))
        shear_means == Array(nboot, [ix \in 1..nboot |-> smean(ix)])
        cero_means == Array(nboot, [ix \in 1..nboot |-> cmean(ix)])
        sval(b) == shear_means[b].val
        cval(b) == cero_means[b].val
    IN  IF \E b \in 1..nboot : shear_means[b].err
        THEN [err |-> TRUE, t |-> Sqrt(NaN), x |-> Sqrt(NaN), rng |-> RngAfter(g, n * nboot)]
        ELSE [err |-> FALSE, t |-> Std(Array(nboot, [ix \in 1..nboot |-> sval(ix)])), x |-> Std(Array(nboot, [ix \in 1..nboot |-> cval(ix)])),
              rng |-> RngAfter(g, n * nboot)]

\* Profile._boot_error, lines 93-103; g is the global generator's state on
\* entry.  NumpyRNGContext(seed=1) saves it, seeds with 1 and restores it on
\* exit, also when np.average raises.
BootError(shear, cero, weight, nboot, g) ==
    LET n == Len(shear)
        index_boot == bootstrap(n, nboot, RngSeed(1))
        row(a, b) == LET pick(j) == a[index_boot[b][j] + 1] IN Array(n, [ix \in 1..n |-> pick(ix)])
        smean(b) == Average(row(shear, b), row(weight, b))
        cmean(b) == Average(row(cero, b), row(weight, b))
        shear_means == Array(nboot, [ix \in 1..nboot |-> smean(ix)])
        cero_means == Array(nboot, [ix \in 1..nboot |-> cmean(ix)])
        sval(b) == shear_means[b].val
        cval(b) == cero_means[b].val
    IN  IF \E b \in 1..nboot : shear_means[b].err
        THEN [err |-> TRUE, t |-> Sqrt(NaN), x |-> Sqrt(NaN), rng |-> g]
        ELSE [err |-> FALSE, t |-> Std(Array(nboot, [ix \in 1..nboot |-> sval(ix)])), x |-> Std(Array(nboot, [ix \in 1..nboot |-> cval(ix)])),
              rng |-> g]

-----------------------------------------------------------------------------
(* Profile.__init__, lines 20-79                                            *)

NoProfile ==
    [bins |-> <<>>, r_hMpc |-> <<>>, N |-> <<>>, shear |-> <<>>, cero |-> <<>>,
     shear_error |-> <<>>, cero_error |-> <<>>, stat_error |-> <<>>]

\* lines 47-58: the arrays before the loop
ZeroProfile(e) ==
    LET nbin == Len(e) - 1
    IN  [bins |-> e,
         r_hMpc |-> [i \in 0..(nbin - 1) |-> Mul(Frac(1, 2), Add(e[i + 1], e[i + 2]))],
         N |-> [i \in 0..(nbin - 1) |-> 0],
         shear |-> [i \in 0..(nbin - 1) |-> Zero],
         cero |-> [i \in 0..(nbin - 1) |-> Zero],
         shear_error |-> [i \in 0..(nbin - 1) |-> Sqrt(Zero)],
         cero_error |-> [i \in 0..(nbin - 1) |-> Sqrt(Zero)],
         stat_error |-> [i \in 0..(nbin - 1) |-> Sqrt(Zero)]]

\* line 63 with the early continue removed: every bin is averaged
SkipBinNever(n) == FALSE

\* line 63: if self.N[i]==0: continue
SkipBin(n) == n = 0

\* lines 61-79: the body of the loop for bin i; st holds self, the outcome
\* so far and the generator's state
BinBody(a, dg, i, st) ==
    LET c == a.cat
        idx == MaskIdx(dg, i, 1)
        n == Len(idx)
        sck(k) == sigma_critic(c[idx[k]])
        sc == Array(n, [ix \in 1..n |-> sck(ix)])
        counted == [st EXCEPT !.self.N[i] = n]
        wk(k) == Div(Q(c[idx[k]].weight), Mul(sc[k], sc[k]))
        weight == Array(n, [ix \in 1..n |-> wk(ix)])
        mk(k) == Q(c[idx[k]].m)
        mavg == Average(Array(n, [ix \in 1..n |-> mk(ix)]), weight)
        m_cal == Add(One, mavg.val)
        tk(k) == Mul(Q(c[idx[k]].et), sc[k])
        xk(k) == Mul(Q(c[idx[k]].ex), sc[k])
        tan == Array(n, [ix \in 1..n |-> tk(ix)])
        crs == Array(n, [ix \in 1..n |-> xk(ix)])
        savg == Average(tan, weight)
        cavg == Average(crs, weight)
        sq(k) == Mul(Mul(Mul(Frac(1, 4), weight[k]), sc[k]),
                     Mul(Mul(Frac(1, 4), weight[k]), sc[k]))
        stat_error_num == SumSeq(Array(n, [ix \in 1..n |-> sq(ix)]))
        stat_error_den == Mul(SumSeq(weight), SumSeq(weight))
        stats == [counted EXCEPT
                    !.self.shear[i] = Div(savg.val, m_cal),
                    !.self.cero[i] = Div(cavg.val, m_cal),
                    !.self.stat_error[i] =
                        DivRoot(Sqrt(Div(stat_error_num, stat_error_den)), m_cal)]
        boot == BootError(tan, crs, weight, a.boot_n, st.rng)
    IN  IF SkipBin(n) THEN counted
        ELSE IF mavg.err \/ savg.err \/ cavg.err
        THEN [counted EXCEPT !.outcome = "ZeroDivisionError", !.raisedAt = i]
        ELSE IF ~a.boot_flag THEN stats
        ELSE IF boot.err
        THEN [stats EXCEPT !.outcome = "ZeroDivisionError", !.raisedAt = i,
                           !.rng = boot.rng]
        ELSE [stats EXCEPT
                !.self.shear_error[i] = DivRoot(boot.t, m_cal),
                !.self.cero_error[i] = DivRoot(boot.x, m_cal),
                !.rng = boot.rng]

\* line 60: for i in range(nbin), stopping at the first exception
RECURSIVE BinLoop(_, _, _, _)
BinLoop(a, dg, i, st) ==
    IF i >= Len(st.self.bins) - 1 \/ st.outcome # "ok" THEN st
    ELSE BinLoop(a, dg, i + 1, BinBody(a, dg, i, st))

\* The whole constructor on arguments a with the global generator in state g
Build(a, g) ==
    LET e == MakeBins(a.bins)
    IN  IF a.frame
        THEN [self |-> NoProfile, outcome |-> "IndexError", raisedAt |-> -1, rng |-> g]
        ELSE IF Monotonicity(e) = 0
        THEN [self |-> [NoProfile EXCEPT !.bins = e], outcome |-> "ValueError",
              raisedAt |-> -1, rng |-> g]
        ELSE BinLoop(a, Digit(a.cat, e), 0,
                     [self |-> ZeroProfile(e), outcome |-> "ok", raisedAt |-> -1,
                      rng |-> g])

-----------------------------------------------------------------------------
(* Profile.write_to, lines 105-130                                          *)

MaxWrites == 2     \* calls of write_to

\* the header argument: None (not given), or a dict as the sequence of its keys
Headers ==
    { [given |-> FALSE, keys |-> <<>>] }
    \cup { [given |-> TRUE, keys |-> k] : k \in { <<>>, <<"z_min">>, <<"z_min", "z_max">> } }

\* Lines 1-9 import os, platform, numpy, pandas, astropy and gentools; the
\* name datetime that line 122 reads is bound nowhere in the module.
DatetimeImported == FALSE

\* lines 115-121: what is written before the timestamp
HeadLines(header) ==
    <<[kind |-> "rule"], [kind |-> "title"]>>
    \o (IF ~header.given THEN <<>>
        ELSE LET kv(k) == [kind |-> "kv", key |-> header.keys[k]]
             IN  Array(Len(header.keys), [ix \in 1..(Len(header.keys)) |-> kv(ix)]))
    \o <<[kind |-> "blank"]>>

\* lines 122-129: timestamp, rule, column names and one row per bin
TailLines(colnames, p) ==
    <<[kind |-> "time"], [kind |-> "rule"],
      [kind |-> "colnames", commented |-> ~colnames]>>
    \o LET row(k) ==
              [kind |-> "row", r_hMpc |-> p.r_hMpc[k - 1], shear |-> p.shear[k - 1],
               shear_error |-> p.shear_error[k - 1], cero |-> p.cero[k - 1],
               cero_error |-> p.cero_error[k - 1], stat_error |-> p.stat_error[k - 1]]
       IN  Array(Len(p.bins) - 1, [ix \in 1..(Len(p.bins) - 1) |-> row(ix)])

\* The whole call: the file is opened for appending, and closed (so flushed)
\* by the with statement also when line 122 raises NameError.
Written(header, colnames, p) ==
    IF DatetimeImported
    THEN [lines |-> HeadLines(header) \o TailLines(colnames, p), status |-> "ok"]
    ELSE [lines |-> HeadLines(header), status |-> "NameError"]

-----------------------------------------------------------------------------
(* Actions on a Profile                                                     *)

NoPrev == [outcome |-> "none", shear_error |-> <<>>, cero_error |-> <<>>, rng |-> 0]

\* Profile(cat, ...): a construction from the arguments the caller holds
Construct ==
    LET r == Build(args, rng)
    IN  /\ profile' = r.self
        /\ outcome' = r.outcome
        /\ raisedAt' = r.raisedAt
        /\ built_in' = rng
        /\ rng' = r.rng
        /\ prev' = IF outcome = "none" THEN NoPrev
                   ELSE [outcome |-> outcome, shear_error |-> profile.shear_error,
                         cero_error |-> profile.cero_error, rng |-> built_in]
        /\ UNCHANGED <<args, file, wstatus, kappaVars, kernelVars>>

\* any other use of the global generator between two constructions:
\* np.random.seed(s), or draws
RandomOp ==
    /\ \E s \in RngStates : s # rng /\ rng' = s
    /\ UNCHANGED <<args, profile, outcome, raisedAt, built_in, prev, file, wstatus,
                   kappaVars, kernelVars>>

\* profile.write_to(file, header, colnames) on a constructed profile
WriteTo ==
    /\ outcome = "ok"
    /\ Len(wstatus) < MaxWrites
    /\ \E header \in Headers, colnames \in BOOLEAN :
         LET w == Written(header, colnames, profile)
         IN  /\ file' = file \o w.lines
             /\ wstatus' = Append(wstatus, w.status)
    /\ UNCHANGED <<args, profile, outcome, raisedAt, built_in, rng, prev,
                   kappaVars, kernelVars>>

-----------------------------------------------------------------------------
(* Complex values (numpy complex128 over the extended rationals) and the    *)
(* discrete Fourier transform                                               *)

Cx(re, im) == [re |-> re, im |-> im]
CZero == Cx(Zero, Zero)
CReal(x) == Cx(x, Zero)
CConj(z) == Cx(z.re, Neg(z.im))
CAdd(z, w) == Cx(Add(z.re, w.re), Add(z.im, w.im))
CSub(z, w) == Cx(Sub(z.re, w.re), Sub(z.im, w.im))
CMul(z, w) ==
    Cx(Sub(Mul(z.re, w.re), Mul(z.im, w.im)), Add(Mul(z.re, w.im), Mul(z.im, w.re)))
CScale(z, r) == Cx(Mul(z.re, r), Mul(z.im, r))
CIsFinite(z) == IsFinite(z.re) /\ IsFinite(z.im)

AbsQ(x) == [n |-> Abs(x.n), d |-> x.d]

\* numpy's complex division (Smith's algorithm)
CDiv(z, w) ==
    LET ar == AbsQ(w.re)
        ai == AbsQ(w.im)
    IN  IF Leq(ai, ar)
        THEN (IF IsZero(ar) /\ IsZero(ai)
              THEN Cx(Div(z.re, ar), Div(z.im, ar))
              ELSE LET rat == Div(w.im, w.re)
                       scl == Div(One, Add(w.re, Mul(w.im, rat)))
                   IN  Cx(Mul(Add(z.re, Mul(z.im, rat)), scl),
                          Mul(Sub(z.im, Mul(z.re, rat)), scl)))
        ELSE LET rat == Div(w.re, w.im)
                 scl == Div(One, Add(w.im, Mul(w.re, rat)))
             IN  Cx(Mul(Add(Mul(z.re, rat), z.im), scl),
                    Mul(Sub(Mul(z.im, rat), z.re), scl))

\* A 2D array of shape (rows, cols) holding F(i, j) at [i, j], with i in
\* 0..rows-1 and j in 0..cols-1; v is the tuple of its rows.
\* the index pairs of a rows x cols array
Cells(rows, cols) == (0..(rows - 1)) \X (0..(cols - 1))

Grid(rows, cols, f) ==
    LET RECURSIVE Row(_, _)
        Row(i, j) == IF j >= cols THEN <<>> ELSE <<f[<<i, j>>]>> \o Row(i, j + 1)
        RECURSIVE Rows(_)
        Rows(i) == IF i >= rows THEN <<>> ELSE <<Row(i, 0)>> \o Rows(i + 1)
    IN  [rows |-> rows, cols |-> cols, v |-> Rows(0)]

\* the element [i, j]
At(g, i, j) == g.v[i + 1][j + 1]

NoGrid == [rows |-> 0, cols |-> 0, v |-> <<>>]

\* The transform is exact over the rationals for the lengths whose roots of
\* unity are 1, -1, i, -i.
GridSizes == {1, 2, 4}

\* exp(-2 pi i m / n) for n in GridSizes is (-i)^q with q = Quarter(n, m)
Quarter(n, m) == (m * (4 \div n)) % 4

\* z * (-i)^q
CRot(z, q) ==
    CASE q = 0 -> z
      [] q = 1 -> Cx(z.im, Neg(z.re))
      [] q = 2 -> Cx(Neg(z.re), Neg(z.im))
      [] q = 3 -> Cx(Neg(z.im), z.re)

RECURSIVE CSum(_, _, _)
\* sum of f[t] for t in lo..hi
CSum(f, lo, hi) == IF lo > hi THEN CZero ELSE CAdd(f[lo], CSum(f, lo + 1, hi))

\* the 2D discrete Fourier transform of x with the sign of the exponent
\* given by dir (1 forward, 3 = -1 mod 4 backward), unnormalised
Dft2(x, dir) ==
    LET term(k1, k2, j1, j2) ==
            CRot(At(x, j1, j2),
                 (dir * (Quarter(x.rows, j1 * k1) + Quarter(x.cols, j2 * k2))) % 4)
        inner(k1, k2, j1) ==
            LET f(j2) == term(k1, k2, j1, j2) IN CSum([ix \in 0..(x.cols - 1) |-> f(ix)], 0, x.cols - 1)
        coef(k1, k2) ==
            LET f(j1) == inner(k1, k2, j1) IN CSum([ix \in 0..(x.rows - 1) |-> f(ix)], 0, x.rows - 1)
    IN  Grid(x.rows, x.cols, [ij \in Cells(x.rows, x.cols) |-> coef(ij[1], ij[2])])

\* scipy.fftpack.fft2
fft2(x) == Dft2(x, 1)

\* scipy.fftpack.ifft2
ifft2(x) ==
    LET y == Dft2(x, 3)
        scaled(i, j) == CScale(At(y, i, j), Frac(1, x.rows * x.cols))
    IN  Grid(x.rows, x.cols, [ij \in Cells(x.rows, x.cols) |-> scaled(ij[1], ij[2])])

-----------------------------------------------------------------------------
(* kappa.KappaMap: inputs                                                   *)

MaxStep == 2       \* largest grid spacing
MaxKappa == 2      \* largest value of a known convergence map
MaxNbins == 4      \* nbins, for the kernel on its own

\* shear.ShearMap is outside these sources.  What KappaMap reads of it is a
\* grid of e1 + i*e2 and the coordinate arrays px, py of the same shape, laid
\* out like the kernel's meshgrid (indexing='ij'): px varies along the first
\* axis with the x spacing, py along the second with the y spacing.
ShearMap(rows, cols, sx, sy, e) ==
    LET x(i, j) == Mul(Q(i), sx)
        y(i, j) == Mul(Q(j), sy)
    IN  [e |-> e,
         px |-> Grid(rows, cols, [ij \in Cells(rows, cols) |-> x(ij[1], ij[2])]),
         py |-> Grid(rows, cols, [ij \in Cells(rows, cols) |-> y(ij[1], ij[2])])]

NoMap == [e |-> NoGrid, px |-> NoGrid, py |-> NoGrid]

\* e1 + i*e2 of a grid cell: 0, 1 and i
ShearVals == { CZero, Cx(One, Zero), Cx(Zero, One) }

\* the grids ShearMap may hand over: up to 2 x 2, square or not
ShearMaps ==
    { ShearMap(r, c, Q(sx), Q(sy), Grid(r, c, f)) :
        <<r, c, sx, sy, f>> \in
          UNION { { <<r, c, sx, sy, f>> :
                      sx \in 0..MaxStep, sy \in 0..MaxStep,
                      f \in [Cells(r, c) -> ShearVals] } :
                  r \in {1, 2}, c \in {1, 2} } }

\* grid spacings (x, y) of the known maps: equal, or the y spacing 1
Spacings == { <<sx, sy>> \in (1..MaxStep) \X (1..MaxStep) : sy \in {1, sx} }

\* known convergence maps: every 1 x 1 and 2 x 2 map, and the 4 x 4 maps
\* with one or two non-zero cells
Truths ==
    { [n |-> n, sx |-> s[1], sy |-> s[2], kappa |-> f] :
        <<n, s, f>> \in
          UNION { { <<n, s, f>> : s \in Spacings,
                      f \in [(0..(n - 1)) \X (0..(n - 1)) -> 0..MaxKappa] } :
                  n \in {1, 2} } }
    \cup
    { [n |-> 4, sx |-> s[1], sy |-> s[2],
       kappa |-> [c \in (0..3) \X (0..3) |->
                    IF c = p THEN a ELSE IF c = <<3, 1>> THEN b ELSE 0]] :
        s \in Spacings, p \in (0..2) \X (0..2), a \in 1..MaxKappa, b \in 0..1 }

NoTruth == [n |-> 0, sx |-> 0, sy |-> 0, kappa |-> <<>>]

\* data is None or a catalogue; nbins is None (<<>>) or <<n>>
KArgs ==
    { [data |-> "None", nbins |-> <<2>>] }
    \cup [data : {"catalog"}, nbins : {<<>>, <<1>>, <<2>>, <<4>>}]

-----------------------------------------------------------------------------
(* KappaMap._conjugate_inversion_kernel and KappaMap.__init__               *)

\* scipy.fftpack.fftfreq(n, d): [0, 1, ..., (n-1)//2, -(n//2), ..., -1] / (n d)
fftfreq(n, d) ==
    LET val == Div(One, Mul(Q(n), d))
        results(i) == IF i < ((n - 1) \div 2) + 1 THEN i ELSE i - n
    IN  [i \in 0..(n - 1) |-> Mul(Q(results(i)), val)]

\* lines 69-70 without line 70: the zero frequency keeps the quotient 0/0
KernelNoDC(nbins, bin_size) ==
    LET k_x0 == fftfreq(nbins, bin_size[1])
        k_y0 == fftfreq(nbins, bin_size[2])
        T(i, j) ==
            LET kx == k_x0[i]
                ky == k_y0[j]
                twoj == CMul(CMul(Cx(Zero, Q(2)), CReal(kx)), CReal(ky))
                num == CSub(CReal(Sub(Mul(kx, kx), Mul(ky, ky))), twoj)
            IN  CDiv(num, CReal(Add(Mul(kx, kx), Mul(ky, ky))))
    IN  Grid(nbins, nbins, [ij \in Cells(nbins, nbins) |-> T(ij[1], ij[2])])

\* lines 59-71, with self.bin_size = bin_size
conjugate_inversion_kernel(nbins, bin_size) ==
    LET k_x0 == fftfreq(nbins, bin_size[1])
        k_y0 == fftfreq(nbins, bin_size[2])
        T(i, j) ==
            LET kx == k_x0[i]
                ky == k_y0[j]
                twoj == CMul(CMul(Cx(Zero, Q(2)), CReal(kx)), CReal(ky))
                num == CSub(CReal(Sub(Mul(kx, kx), Mul(ky, ky))), twoj)
            IN  IF i = 0 /\ j = 0 THEN CZero
                ELSE CDiv(num, CReal(Add(Mul(kx, kx), Mul(ky, ky))))
    IN  Grid(nbins, nbins, [ij \in Cells(nbins, nbins) |-> T(ij[1], ij[2])])

\* numpy broadcasting of two 2D shapes
Broadcastable(a, b) ==
    /\ a.rows = b.rows \/ a.rows = 1 \/ b.rows = 1
    /\ a.cols = b.cols \/ a.cols = 1 \/ b.cols = 1

Max(a, b) == IF a > b THEN a ELSE b

\* elementwise product with broadcasting
GridMul(a, b) ==
    LET P(i, j) ==
            CMul(At(a, IF a.rows = 1 THEN 0 ELSE i, IF a.cols = 1 THEN 0 ELSE j),
                 At(b, IF b.rows = 1 THEN 0 ELSE i, IF b.cols = 1 THEN 0 ELSE j))
        rows == Max(a.rows, b.rows)
        cols == Max(a.cols, b.cols)
    IN  Grid(rows, cols, [ij \in Cells(rows, cols) |-> P(ij[1], ij[2])])

\* line 56 with the forward transform in place of the inverse one
ForwardTransform(T_kappa) == fft2(T_kappa)

\* line 56: self.kappa = fftpack.ifft2(T_kappa)
InverseTransform(T_kappa) == ifft2(T_kappa)

NoKappaMap ==
    [shear_map |-> NoMap, px |-> NoGrid, py |-> NoGrid, bin_size |-> <<>>,
     kappa |-> NoGrid]

\* lines 41-42: self.px and self.py, both read from shear_map.px
StoredCoords(sm) == [px |-> sm.px, py |-> sm.px]

\* KappaMap.__init__, lines 28-56, on arguments a, with sm the grid that
\* shear.ShearMap returns for them
KappaBuild(a, sm) ==
    LET xy == StoredCoords(sm)
        dx == Sub(At(xy.px, 1, 0), At(xy.px, 0, 0))
        dy == Sub(At(xy.py, 1, 0), At(xy.py, 0, 0))
        s1 == [NoKappaMap EXCEPT !.shear_map = sm, !.px = xy.px, !.py = xy.py]
        s2 == [s1 EXCEPT !.bin_size = <<dx, dy>>]
        T_shear == fft2(sm.e)
        T_Dconj == conjugate_inversion_kernel(a.nbins[1], s2.bin_size)
    IN  IF a.data = "None" THEN [self |-> NoKappaMap, outcome |-> "ValueError"]
        ELSE IF a.nbins = <<>> THEN [self |-> NoKappaMap, outcome |-> "NameError"]
        ELSE IF sm.px.rows < 2 THEN [self |-> s1, outcome |-> "IndexError"]
        ELSE IF ~Broadcastable(sm.e, [rows |-> a.nbins[1], cols |-> a.nbins[1]])
        THEN [self |-> s2, outcome |-> "ValueError"]
        ELSE [self |-> [s2 EXCEPT !.kappa = InverseTransform(GridMul(T_shear, T_Dconj))],
              outcome |-> "ok"]

\* Forward lensing of a known convergence map t on an n x n grid of
\* spacings sx and sy: its transform times D, the conjugate of the kernel
\* D* of that grid, back in real space.
ForwardLensed(t) ==
    LET kap(i, j) == CReal(Q(t.kappa[<<i, j>>]))
        Dc == conjugate_inversion_kernel(t.n, <<Q(t.sx), Q(t.sy)>>)
        T_kappa == fft2(Grid(t.n, t.n, [ij \in Cells(t.n, t.n) |-> kap(ij[1], ij[2])]))
        lens(i, j) == CMul(At(T_kappa, i, j), CConj(At(Dc, i, j)))
        gamma == ifft2(Grid(t.n, t.n, [ij \in Cells(t.n, t.n) |-> lens(ij[1], ij[2])]))
    IN  ShearMap(t.n, t.n, Q(t.sx), Q(t.sy), gamma)

-----------------------------------------------------------------------------
(* Actions on a KappaMap and on the kernel                                  *)

\* the shear grid of a known convergence map is produced
ForwardLens ==
    /\ truth # NoTruth
    /\ shear_map = NoMap
    /\ shear_map' = ForwardLensed(truth)
    /\ UNCHANGED <<truth, kargs, kmap, koutcome, profileVars, kernelVars>>

\* KappaMap(data, nbins, ...)
KappaConstruct ==
    /\ shear_map # NoMap
    /\ koutcome = "none"
    /\ LET r == KappaBuild(kargs, shear_map)
       IN  kmap' = r.self /\ koutcome' = r.outcome
    /\ UNCHANGED <<shear_map, truth, kargs, profileVars, kernelVars>>

StepVals == { Frac(n, d) : n \in (-MaxStep)..MaxStep, d \in {1, 2} }

KernelInputs == [nbins : 1..MaxNbins, dx : StepVals, dy : StepVals]

\* self._conjugate_inversion_kernel(nbins) with self.bin_size = (dx, dy)
KernelCall ==
    /\ kern_out = NoGrid
    /\ kern_out' = conjugate_inversion_kernel(kern_in.nbins, <<kern_in.dx, kern_in.dy>>)
    /\ UNCHANGED <<kern_in, profileVars, kappaVars>>

-----------------------------------------------------------------------------
(* Specifications                                                           *)

IdleArgs ==
    [cat |-> <<>>, frame |-> FALSE, bins |-> [kind |-> "array", edges |-> <<1, 2, 4>>],
     boot_flag |-> FALSE, boot_n |-> 1]

InitProfile(A, R) ==
    /\ args \in A
    /\ rng \in R
    /\ profile = NoProfile
    /\ outcome = "none"
    /\ raisedAt = -1
    /\ built_in = 0
    /\ prev = NoPrev
    /\ file = <<>>
    /\ wstatus = <<>>

IdleKappa ==
    /\ shear_map = NoMap
    /\ truth = NoTruth
    /\ kargs = [data |-> "None", nbins |-> <<>>]
    /\ kmap = NoKappaMap
    /\ koutcome = "none"

IdleKernel ==
    /\ kern_in = [nbins |-> 1, dx |-> One, dy |-> One]
    /\ kern_out = NoGrid

\* the first construction from the arguments
FirstConstruct == outcome = "none" /\ Construct

\* Profile construction over every catalogue, bin specification and
\* bootstrap option
Init == InitProfile(ProfileArgs, {RngSeed(0)}) /\ IdleKappa /\ IdleKernel
Next == FirstConstruct
Spec == Init /\ [][Next]_vars

\* Repeated construction from the same arguments with the global generator
\* used in between
BootArgs ==
    { a \in ProfileArgs :
        /\ ~a.frame /\ a.boot_flag
        /\ a.boot_n >= 2
        /\ a.bins = [kind |-> "array", edges |-> <<1, 2, 4>>]
        /\ \A k \in 1..Len(a.cat) : a.cat[k].dist \in {1, 2} /\ a.cat[k].DS > 0 }
InitBoot == InitProfile(BootArgs, RngStates) /\ IdleKappa /\ IdleKernel
NextBoot == Construct \/ RandomOp
SpecBoot == InitBoot /\ [][NextBoot]_vars

\* Construction followed by calls of write_to
WriteArgs ==
    { a \in ProfileArgs : ~a.frame /\ ~a.boot_flag /\ Len(a.cat) <= 1 }
InitWrite == InitProfile(WriteArgs, {RngSeed(0)}) /\ IdleKappa /\ IdleKernel
NextWrite == FirstConstruct \/ WriteTo
SpecWrite == InitWrite /\ [][NextWrite]_vars

\* KappaMap construction on the grid ShearMap returns, or on the shear grid
\* of a known convergence map
InitKappa ==
    /\ InitProfile({IdleArgs}, {RngSeed(0)}) /\ IdleKernel
    /\ kargs \in KArgs
    /\ kmap = NoKappaMap
    /\ koutcome = "none"
    /\ \/ truth = NoTruth /\ shear_map \in ShearMaps
       \/ truth \in Truths /\ shear_map = NoMap
NextKappa == ForwardLens \/ KappaConstruct
SpecKappa == InitKappa /\ [][NextKappa]_vars

\* The kernel on its own, over grid sizes and bin sizes
InitKernel ==
    /\ InitProfile({IdleArgs}, {RngSeed(0)}) /\ IdleKappa
    /\ kern_in \in KernelInputs
    /\ kern_out = NoGrid
NextKernel == KernelCall
SpecKernel == InitKernel /\ [][NextKernel]_vars

-----------------------------------------------------------------------------
(* Properties of Profile construction                                       *)

NBin == Len(profile.bins) - 1

\* the edges never decrease: bins[k] <= bins[k+1]
NonDecreasing(e) == \A k \in 1..(Len(e) - 1) : Leq(e[k], e[k + 1])

StrictlyIncreasing(e) == \A k \in 1..(Len(e) - 1) : Less(e[k], e[k + 1])

\* bins[i] <= d < bins[i+1], for the bin i in 0..nbin-1
InBin(d, e, i) == Leq(e[i + 1], d) /\ Less(d, e[i + 2])

Members(c, e, i) == { k \in 1..Len(c) : InBin(Q(c[k].dist), e, i) }

RECURSIVE SumN(_, _)
SumN(N, i) == IF i < 0 THEN 0 ELSE N[i] + SumN(N, i - 1)

AllZero(p, i) ==
    /\ p.shear[i] = Zero
    /\ p.cero[i] = Zero
    /\ p.shear_error[i] = Sqrt(Zero)
    /\ p.cero_error[i] = Sqrt(Zero)
    /\ p.stat_error[i] = Sqrt(Zero)

\* C1: on a constructed profile whose bin edges do not decrease, N[i] is the
\* number of galaxies with bins[i] <= d < bins[i+1] for every bin i, and the
\* sum of N is the number of galaxies with bins[0] <= d < bins[nbin]: a
\* galaxy below the first edge, or on or beyond the last, is in no bin.
C1_RightOpenBinning ==
    (outcome = "ok" /\ NonDecreasing(profile.bins)) =>
        /\ \A i \in 0..(NBin - 1) :
             profile.N[i] = Cardinality(Members(args.cat, profile.bins, i))
        /\ SumN(profile.N, NBin - 1) =
             Cardinality({ k \in 1..Len(args.cat) :
                             /\ Leq(profile.bins[1], Q(args.cat[k].dist))
                             /\ Less(Q(args.cat[k].dist), profile.bins[NBin + 1]) })

\* a profile of two bins built from a galaxy on the inner edge, counted in
\* the second bin, and a galaxy on the last edge, counted nowhere
C1_Witness ==
    /\ outcome = "ok" /\ NBin = 2 /\ StrictlyIncreasing(profile.bins)
    /\ Len(args.cat) = 2
    /\ Q(args.cat[1].dist) = profile.bins[2]
    /\ Q(args.cat[2].dist) = profile.bins[3]
    /\ profile.N[0] = 0 /\ profile.N[1] = 1

\* C2: once the loop over the bins has run, every bin that no galaxy was put
\* in has N = 0 and shear, cero and the three errors exactly 0, and the
\* construction did not raise in that bin, with or without bootstrap; and
\* for edges that do not decrease this is every bin whose interval
\* [bins[i], bins[i+1]) holds no galaxy.
C2_EmptyBinsZero ==
    (outcome \in {"ok", "ZeroDivisionError"}) =>
        \A i \in 0..(NBin - 1) :
            /\ (NonDecreasing(profile.bins) /\ Members(args.cat, profile.bins, i) = {})
                  => profile.N[i] = 0
            /\ profile.N[i] = 0 => (AllZero(profile, i) /\ raisedAt # i)

\* a profile built with bootstrap that has an empty bin next to a bin whose
\* bootstrap error is not zero
C2_Witness ==
    /\ outcome = "ok" /\ args.boot_flag /\ NBin = 2
    /\ profile.N[0] = 2 /\ profile.N[1] = 0
    /\ profile.shear_error[0] # Sqrt(Zero)
    /\ AllZero(profile, 1)

\* a bin of non-decreasing edges that holds galaxies, all of weight zero
ZeroWeightBin(i) ==
    /\ NonDecreasing(MakeBins(args.bins))
    /\ Members(args.cat, MakeBins(args.bins), i) # {}
    /\ \A k \in Members(args.cat, MakeBins(args.bins), i) :
         args.cat[k].weight = 0 /\ args.cat[k].DS > 0

\* C3: a construction whose catalogue puts only galaxies of weight zero in a
\* bin completes, and leaves that bin's shear, cero and errors at 0.
C3_ZeroWeightHandled ==
    (outcome # "none" /\ ~args.frame) =>
        \A i \in 0..(Len(MakeBins(args.bins)) - 2) :
            ZeroWeightBin(i) => (outcome = "ok" /\ AllZero(profile, i))

InvalidProfileInput ==
    \/ Len(args.cat) = 0
    \/ \E k \in 1..Len(args.cat) : args.cat[k].DS <= 0
    \/ ~StrictlyIncreasing(MakeBins(args.bins))

\* C4: a construction from an empty catalogue, from a catalogue with a DS
\* entry that is zero or negative, or from bin edges that are not strictly
\* increasing, fails and produces no profile.
C4_InvalidInputRejected ==
    (outcome # "none" /\ InvalidProfileInput) => outcome # "ok"

\* C8: a construction repeated from the same catalogue, bins and boot_n
\* gives the shear_error and cero_error of the construction before it in
\* every bin, whatever the global generator's state at either construction.
C8_BootstrapDeterministic ==
    prev.outcome # "none" =>
        /\ prev.outcome = outcome
        /\ prev.shear_error = profile.shear_error
        /\ prev.cero_error = profile.cero_error

\* two constructions started in different states of the global generator,
\* with a bootstrap error that is not zero
C8_Witness ==
    /\ prev.outcome = "ok" /\ outcome = "ok"
    /\ prev.rng # built_in
    /\ \E i \in 0..(NBin - 1) :
         /\ profile.N[i] >= 2
         /\ IsFinite(profile.shear_error[i].sqrt)
         /\ ~IsZero(profile.shear_error[i].sqrt)

-----------------------------------------------------------------------------
(* Properties of write_to                                                   *)

KindAt(f, p) == IF p \in 1..Len(f) THEN f[p].kind ELSE "eof"

RECURSIVE SkipKv(_, _)
SkipKv(f, p) == IF KindAt(f, p) = "kv" THEN SkipKv(f, p + 1) ELSE p

\* The position after the block that starts at p: a rule line (optional),
\* the title, the key = value lines, a blank comment line (optional), the
\* timestamp, a rule, the column names and nrows rows; 0 if there is none.
BlockEnd(f, p, nrows) ==
    LET p1 == IF KindAt(f, p) = "rule" THEN p + 1 ELSE p
        p2 == SkipKv(f, p1 + 1)
        p3 == IF KindAt(f, p2) = "blank" THEN p2 + 1 ELSE p2
    IN  IF /\ KindAt(f, p1) = "title"
           /\ KindAt(f, p3) = "time"
           /\ KindAt(f, p3 + 1) = "rule"
           /\ KindAt(f, p3 + 2) = "colnames"
           /\ \A r \in 1..nrows : KindAt(f, p3 + 2 + r) = "row"
        THEN p3 + 3 + nrows
        ELSE 0

\* C9: after two calls of write_to on the same file both calls have
\* completed and the file is two complete blocks one after the other, each
\* with its header, its column names and one row per bin.
C9_TwoBlocks ==
    Len(wstatus) = 2 =>
        /\ wstatus = <<"ok", "ok">>
        /\ LET e1 == BlockEnd(file, 1, NBin)
           IN  e1 > 0 /\ BlockEnd(file, e1, NBin) = Len(file) + 1

-----------------------------------------------------------------------------
(* Properties of the kernel                                                 *)

\* the integer frequency index of position i on a grid of n points
SignedIndex(i, n) == IF 2 * i <= n - 1 THEN i ELSE i - n

\* kx^2 + ky^2 at position (i, j) of an n x n grid of bin size (dx, dy)
KSquared(i, j, n, dx, dy) ==
    LET ka == Div(Q(SignedIndex(i, n)), Mul(Q(n), dx))
        kb == Div(Q(SignedIndex(j, n)), Mul(Q(n), dy))
    IN  Add(Mul(ka, ka), Mul(kb, kb))

\* (kx^2 - ky^2 - 2i kx ky) / (kx^2 + ky^2) at position (i, j), in real
\* and imaginary parts
KernelValue(i, j, n, dx, dy) ==
    LET ka == Div(Q(SignedIndex(i, n)), Mul(Q(n), dx))
        kb == Div(Q(SignedIndex(j, n)), Mul(Q(n), dy))
        k2 == Add(Mul(ka, ka), Mul(kb, kb))
    IN  Cx(Div(Sub(Mul(ka, ka), Mul(kb, kb)), k2),
           Div(Neg(Mul(Q(2), Mul(ka, kb))), k2))

\* C6: for every nbins >= 1 and every non-zero finite (dx, dy) the returned
\* kernel is nbins x nbins, its entry [0,0] is exactly 0 and is the only
\* index with kx^2 + ky^2 = 0, and every other entry has kx^2 + ky^2 > 0 and
\* is the finite value (kx^2 - ky^2 - 2i kx ky)/(kx^2 + ky^2), of modulus 1.
C6_KernelInvariant ==
    (kern_out # NoGrid /\ ~IsZero(kern_in.dx) /\ ~IsZero(kern_in.dy)) =>
        LET n == kern_in.nbins
        IN  /\ kern_out.rows = n /\ kern_out.cols = n
            /\ At(kern_out, 0, 0) = CZero
            /\ IsZero(KSquared(0, 0, n, kern_in.dx, kern_in.dy))
            /\ \A i \in 0..(n - 1), j \in 0..(n - 1) :
                 (i # 0 \/ j # 0) =>
                     LET z == At(kern_out, i, j)
                     IN  /\ Less(Zero, KSquared(i, j, n, kern_in.dx, kern_in.dy))
                         /\ z = KernelValue(i, j, n, kern_in.dx, kern_in.dy)
                         /\ CIsFinite(z)
                         /\ Add(Mul(z.re, z.re), Mul(z.im, z.im)) = One

\* a 4 x 4 kernel for unequal bin sizes of opposite sign, with an entry
\* whose real and imaginary parts are both non-zero
C6_Witness ==
    /\ kern_out # NoGrid /\ kern_in.nbins = 4
    /\ Less(kern_in.dx, Zero) /\ Less(Zero, kern_in.dy)
    /\ kern_in.dx # Neg(kern_in.dy)
    /\ At(kern_out, 0, 0) = CZero
    /\ ~IsZero(At(kern_out, 1, 3).re) /\ ~IsZero(At(kern_out, 1, 3).im)
    /\ CIsFinite(At(kern_out, 1, 3))

-----------------------------------------------------------------------------
(* Properties of KappaMap construction                                      *)

\* the spacing of the x array along its axis, and of the y array along its
XStep(sm) == Sub(At(sm.px, 1, 0), At(sm.px, 0, 0))
YStep(sm) == Sub(At(sm.py, 0, 1), At(sm.py, 0, 0))

\* a grid that is not square, or has a zero spacing
BadGrid(sm) ==
    \/ sm.e.rows # sm.e.cols
    \/ sm.e.rows >= 2 /\ IsZero(XStep(sm))
    \/ sm.e.cols >= 2 /\ IsZero(YStep(sm))

\* C5: a KappaMap construction on a shear grid that is not square, or whose
\* x or y spacing is zero, fails and produces no convergence map.
C5_BadGridRejected ==
    (koutcome # "none" /\ BadGrid(shear_map)) =>
        koutcome # "ok" /\ kmap.kappa = NoGrid

\* C10: after a KappaMap construction the stored py is the shear map's y
\* array, and dy is the spacing of that array, so that dy differs from dx
\* whenever the grid's y spacing differs from its x spacing.
C10_StoredYCoordinates ==
    koutcome = "ok" =>
        /\ kmap.py = shear_map.py
        /\ shear_map.e.cols >= 2 => kmap.bin_size[2] = YStep(shear_map)
        /\ (shear_map.e.cols >= 2 /\ XStep(shear_map) # YStep(shear_map))
              => kmap.bin_size[1] # kmap.bin_size[2]

\* the Fourier coefficients of the known map
TruthTransform ==
    LET kap(i, j) == CReal(Q(truth.kappa[<<i, j>>]))
    IN  fft2(Grid(truth.n, truth.n, [ij \in Cells(truth.n, truth.n) |-> kap(ij[1], ij[2])]))

\* a reconstruction of the forward-lensed known map on its own grid size
RoundTrip ==
    /\ truth # NoTruth /\ koutcome # "none"
    /\ kargs.data = "catalog" /\ kargs.nbins = <<truth.n>>

=============================================================================
